---- MODULE Spec2Model ----
(***************************************************************************)
(* A model of src/periodic_structures.py: the layered moire structures     *)
(* (CommensuStruct, TBG30Approximant, Graphene), append_layers, the        *)
(* hopping table, the Bloch Hamiltonian assembly and the k-point loop.     *)
(*                                                                         *)
(* Numbers.  Lengths are kept exact and symbolic:                          *)
(*   - a site is [lat, f, z]: in-plane position (f[1]/3)*a1 + (f[2]/3)*a2  *)
(*     in the primitive lattice named by lat ("bott" = latt_vec_bott,      *)
(*     "top" = latt_vec_top), height z*h;                                  *)
(*   - a rational is a reduced pair <<num, den>>, den > 0;                 *)
(*   - twist_angle is kept as the argument of arccos (a rational): arccos  *)
(*     is strictly decreasing on [-1, 1], so the angle in degrees is       *)
(*     determined by it (1 <-> 0 deg, 1/2 <-> 60 deg);                     *)
(*   - a complex number is <<re, im>> over the integers; the Bloch phase   *)
(*     exp(1j*k.R) is taken at momenta with k.a1, k.a2 multiples of pi/2,  *)
(*     where it is a power of 1j.                                          *)
(***************************************************************************)
EXTENDS Integers, Sequences, FiniteSets, TLC

\* ------------------------------------------------------------------ bounds
MaxMN == 2
MaxNBottom == 6
MaxAppend == 2
MaxPairs == 2
MaxTags == 2
MaxHops == 2
MaxK == 2

\* -------------------------------------------------------- program constants
GrapheneNsite == 2

NoErr == "none"
NoRet == <<>>
NoLatt == [base |-> "unset", scale |-> <<"unset", <<0, 1>>>>, rot |-> [cos |-> <<0, 1>>, sin3 |-> <<0, 1>>]]
NoCell == [super |-> <<>>, of |-> NoLatt]
StructAttrs == {"latt_vec_bott", "latt_vec_top", "layer_nsites", "layer_nsites_sublatt",
                "latt_vec", "coords", "layer_latt_vecs", "nsite"}

\* attrs is the set of attributes that exist on the object; an attribute not in
\* attrs holds a placeholder of its type and reading it raises AttributeError.
VARIABLES
  cls, rotate_cent, attrs,
  coords, latt_vec, latt_vec_bott, latt_vec_top,
  layer_nsites, layer_nsites_sublatt, layer_latt_vecs,
  nsite, twist_angle, hoppings,
  last, dk, calls

structVars == <<attrs, coords, latt_vec, latt_vec_bott, latt_vec_top,
                layer_nsites, layer_nsites_sublatt, layer_latt_vecs, nsite>>
vars == <<cls, rotate_cent, attrs, coords, latt_vec, latt_vec_bott, latt_vec_top,
          layer_nsites, layer_nsites_sublatt, layer_latt_vecs,
          nsite, twist_angle, hoppings, last, dk, calls>>

\* ----------------------------------------------------------------- helpers
Abs(x) == IF x < 0 THEN -x ELSE x

RECURSIVE Gcd(_, _)
Gcd(x, y) == IF y = 0 THEN Abs(x) ELSE Gcd(y, x % y)

Frac(n, d) ==
  LET g == Gcd(n, d)
      s == IF d < 0 THEN -1 ELSE 1
  IN  <<s * (n \div g), s * (d \div g)>>

Min2(x, y) == IF x < y THEN x ELSE y
Max2(x, y) == IF x < y THEN y ELSE x

RECURSIVE SumSeq(_)
SumSeq(s) == IF s = <<>> THEN 0 ELSE Head(s) + SumSeq(Tail(s))

Call(op, args, raised, ret) ==
  [op |-> op, args |-> args, raised |-> raised, ret |-> ret]

Idle == [pc |-> "idle"]

\* ----------------------------------------- the structure library's supercell
Det2(S) == S[1][1] * S[2][2] - S[1][2] * S[2][1]

\* lattice_points_in_supercell: the integer points p with p.inv(S) in [0,1)^2,
\* taken from the bounding box of the cell's corners in lexicographic order.
SupercellPoints(S) ==
  LET d    == Det2(S)
      xmin == Min2(Min2(0, S[1][1]), Min2(S[2][1], S[1][1] + S[2][1]))
      xmax == Max2(Max2(0, S[1][1]), Max2(S[2][1], S[1][1] + S[2][1]))
      ymin == Min2(Min2(0, S[1][2]), Min2(S[2][2], S[1][2] + S[2][2]))
      ymax == Max2(Max2(0, S[1][2]), Max2(S[2][2], S[1][2] + S[2][2]))
      w    == ymax - ymin + 1
      all  == [k \in 1..((xmax - xmin + 1) * w) |->
                 <<xmin + ((k - 1) \div w), ymin + ((k - 1) % w)>>]
      u(p) == p[1] * S[2][2] - p[2] * S[2][1]
      v(p) == p[2] * S[1][1] - p[1] * S[1][2]
      In(p) == IF d > 0 THEN 0 <= u(p) /\ u(p) < d /\ 0 <= v(p) /\ v(p) < d
                        ELSE d < u(p) /\ u(p) <= 0 /\ d < v(p) /\ v(p) <= 0
  IN  SelectSeq(all, In)

\* Structure(lattice, ['C'], [site]).make_supercell(S): one site per lattice
\* point of the supercell, at the primitive site f0 (in thirds) plus the point.
MakeSupercell(lat, f0, z, S) ==
  LET pts == SupercellPoints(S)
  IN  [k \in 1..Len(pts) |->
         [lat |-> lat, f |-> <<f0[1] + 3 * pts[k][1], f0[2] + 3 * pts[k][2]>>, z |-> z]]

\* ---------------------------------------------------------- CommensuStruct
RotCos(m, n) == Frac(n*n + m*m + 4*m*n, 2 * (n*n + m*m + m*n))
\* the coefficient of sqrt(3) in sin
RotSin(m, n) == Frac(m*m - n*n, 2 * (n*n + m*m + m*n))

rotate_mat_mn(m, n) == [cos |-> RotCos(m, n), sin3 |-> RotSin(m, n)]

HexBott == [base |-> "hex(-30,+30)", scale |-> <<"a", <<1, 1>>>>, rot |-> [cos |-> <<1, 1>>, sin3 |-> <<0, 1>>]]

SublattSites(rc) ==
  IF rc = "atom" THEN << <<0, 0>>, <<1, 1>> >> ELSE << <<1, 1>>, <<2, 2>> >>

BottScale(m, n) == << <<m + n, -n>>, <<n, m>> >>
\* mutant: the top transform with the bottom's second row
TopScaleBottomRow(m, n) == << <<m + n, -m>>, <<n, m>> >>
TopScale(m, n) == << <<m + n, -m>>, <<m, n>> >>

\* mutant: the factor 0.5 dropped
TwistCosArgNoHalf(m, n) == Frac(m*m + 4*m*n + n*n, n*n + m*n + m*m)
\* mutant: a square dropped in the numerator
TwistCosArgNoSquare(m, n) == Frac(m*m + 4*m*n + n, 2 * (n*n + m*n + m*m))
TwistCosArg(m, n) == Frac(m*m + 4*m*n + n*n, 2 * (n*n + m*n + m*m))

CommensuStruct_make_structure(m, n) ==
  /\ cls = "CommensuStruct"
  /\ dk.pc = "idle"
  /\ IF m = 0 /\ n = 0
     THEN \* rotate_mat_mn divides by zero before anything is assigned
          /\ last' = Call("make_structure", <<m, n>>, "ZeroDivisionError", NoRet)
          /\ UNCHANGED <<structVars, twist_angle>>
     ELSE LET top == [base |-> "hex(-30,+30)", scale |-> <<"a", <<1, 1>>>>, rot |-> rotate_mat_mn(m, n)]
              sb  == SublattSites(rotate_cent)
              b0  == MakeSupercell("bott", sb[1], 0, BottScale(m, n))
              b1  == MakeSupercell("bott", sb[2], 0, BottScale(m, n))
              t0  == MakeSupercell("top", sb[1], 1, TopScale(m, n))
              t1  == MakeSupercell("top", sb[2], 1, TopScale(m, n))
          IN  /\ latt_vec_bott' = HexBott
              /\ latt_vec_top' = top
              /\ attrs' = attrs \cup StructAttrs \cup {"twist_angle"}
              /\ layer_nsites' = <<Len(b0) + Len(b1), Len(t0) + Len(t1)>>
              /\ layer_nsites_sublatt' = << <<Len(b0), Len(b1)>>, <<Len(t0), Len(t1)>> >>
              /\ latt_vec' = [super |-> BottScale(m, n), of |-> HexBott]
              /\ coords' = b0 \o b1 \o t0 \o t1
              /\ layer_latt_vecs' = <<HexBott, top>>
              /\ nsite' = Len(coords')
              /\ twist_angle' = TwistCosArg(m, n)
              /\ last' = Call("make_structure", <<m, n>>, NoErr, NoRet)
  /\ UNCHANGED <<cls, rotate_cent, hoppings, dk>>

\* -------------------------------------------------------- TBG30Approximant
\* int(round(sqrt(3)*n)): the integer t with |t - sqrt(3)*n| < 1/2
RoundSqrt3(n) ==
  CHOOSE t \in 0..(2 * n) :
    /\ 12 * n * n < (2*t + 1) * (2*t + 1)
    /\ (t = 0 \/ (2*t - 1) * (2*t - 1) < 12 * n * n)

TBGBottScale(nb) == << <<nb, nb>>, <<-nb, 2 * nb>> >>
TBGTopScale(nt) == << <<nt, 0>>, <<0, nt>> >>

\* mutant: the multiple-of-3 check dropped
TBGValidGcdOnly(nb, nt) == IF Gcd(nb, nt) # 1 THEN "ValueError" ELSE NoErr
TBGValid(nb, nt) ==
  IF Gcd(nb, nt) # 1 THEN "ValueError"
  ELSE IF nt % 3 = 0 THEN "ValueError"
  ELSE NoErr

TBG30Approximant_make_structure(nb) ==
  /\ cls = "TBG30Approximant"
  /\ dk.pc = "idle"
  /\ LET nt == RoundSqrt3(nb)
         e  == TBGValid(nb, nt)
     IN  IF e # NoErr
         THEN /\ last' = Call("make_structure", <<nb>>, e, NoRet)
              /\ UNCHANGED structVars
         ELSE LET top == [base |-> "hex(0,60)", scale |-> <<"sqrt3*a", Frac(nb, nt)>>,
                          rot |-> [cos |-> <<1, 1>>, sin3 |-> <<0, 1>>]]
                  sb  == SublattSites(rotate_cent)
                  b0  == MakeSupercell("bott", sb[1], 0, TBGBottScale(nb))
                  b1  == MakeSupercell("bott", sb[2], 0, TBGBottScale(nb))
                  t0  == MakeSupercell("top", sb[1], 1, TBGTopScale(nt))
                  t1  == MakeSupercell("top", sb[2], 1, TBGTopScale(nt))
              IN  /\ latt_vec_bott' = HexBott
                  /\ latt_vec_top' = top
                  /\ attrs' = attrs \cup StructAttrs
                  /\ layer_nsites' = <<Len(b0) + Len(b1), Len(t0) + Len(t1)>>
                  /\ layer_nsites_sublatt' = << <<Len(b0), Len(b1)>>, <<Len(t0), Len(t1)>> >>
                  /\ latt_vec' = [super |-> TBGBottScale(nb), of |-> HexBott]
                  /\ coords' = b0 \o b1 \o t0 \o t1
                  /\ layer_latt_vecs' = <<HexBott, top>>
                  /\ nsite' = Len(coords')
                  /\ last' = Call("make_structure", <<nb>>, NoErr, NoRet)
  /\ UNCHANGED <<cls, rotate_cent, twist_angle, hoppings, dk>>

\* ----------------------------------------------------------------- Graphene
HexGraphene == [base |-> "hex(0,60)", scale |-> <<"a", <<1, 1>>>>, rot |-> [cos |-> <<1, 1>>, sin3 |-> <<0, 1>>]]

Graphene_init ==
  /\ cls = "Graphene"
  /\ rotate_cent = "none"
  /\ attrs = {"a", "h"} \cup (StructAttrs \ {"latt_vec_top", "layer_nsites_sublatt"})
               \cup {"layer_nsites_sublatt"}
  /\ latt_vec = [super |-> << <<1, 0>>, <<0, 1>> >>, of |-> HexGraphene]
  /\ latt_vec_bott = HexGraphene
  /\ latt_vec_top = NoLatt
  /\ coords = << [lat |-> "bott", f |-> <<1, 1>>, z |-> 0],
                 [lat |-> "bott", f |-> <<2, 2>>, z |-> 0] >>
  /\ layer_nsites = <<2>>
  /\ layer_nsites_sublatt = << <<1, 1>> >>
  /\ layer_latt_vecs = << HexGraphene >>
  /\ nsite = GrapheneNsite

InitMoire(c, rcs) ==
  /\ cls = c
  /\ rotate_cent \in rcs
  /\ attrs = {"a", "h", "rotate_cent"}
  /\ latt_vec = NoCell /\ latt_vec_bott = NoLatt /\ latt_vec_top = NoLatt
  /\ coords = <<>> /\ layer_nsites = <<>> /\ layer_nsites_sublatt = <<>>
  /\ layer_latt_vecs = <<>> /\ nsite = 0

InitRest ==
  /\ twist_angle = <<0, 1>>
  /\ hoppings = <<>>
  /\ last = Call("__init__", <<>>, NoErr, NoRet)
  /\ dk = Idle
  /\ calls = <<>>

Init ==
  /\ \/ Graphene_init
     \/ InitMoire("CommensuStruct", {"atom", "hole"})
     \/ InitMoire("TBG30Approximant", {"atom", "hole"})
  /\ InitRest

\* the three classes constructed with their default arguments
InitDefault ==
  /\ \/ Graphene_init
     \/ InitMoire("CommensuStruct", {"atom"})
     \/ InitMoire("TBG30Approximant", {"hole"})
  /\ InitRest

\* ------------------------------------------------------------ append_layers
\* A request is the dict in insertion order: a sequence of <<tag, multipliers>>.
Tags == {"A", "B", "Atld", "Btld"}

SourceLayer(tag) == IF tag \in {"A", "B"} THEN 1 ELSE 2

Shift(site) == [lat |-> site.lat, f |-> <<site.f[1] + 1, site.f[2] + 1>>]
Plane(site) == [lat |-> site.lat, f |-> site.f]

\* _coords_xy(layer): [err, xy]
coords_xy(s, tag) ==
  IF "layer_nsites" \notin s.attrs THEN [err |-> "AttributeError", xy |-> <<>>]
  ELSE IF tag \in {"A", "B"}
  THEN LET nb == s.layer_nsites[1]
           xy == [k \in 1..nb |-> Plane(s.coords[k])]
       IN  [err |-> NoErr,
            xy  |-> IF tag = "A" THEN xy ELSE [k \in 1..nb |-> Shift(xy[k])]]
  ELSE IF Len(s.layer_nsites) < 2 THEN [err |-> "IndexError", xy |-> <<>>]
  ELSE IF "latt_vec_top" \notin s.attrs THEN [err |-> "AttributeError", xy |-> <<>>]
  ELSE LET nb == s.layer_nsites[1]
           nt == s.layer_nsites[2]
           xy == [k \in 1..nt |-> Plane(s.coords[nb + k])]
       IN  [err |-> NoErr,
            xy  |-> IF tag = "Atld" THEN xy ELSE [k \in 1..nt |-> Shift(xy[k])]]

nsites_sublatt(s, tag) == s.layer_nsites_sublatt[SourceLayer(tag)]
\* mutant: every new layer given the bottom layer's lattice vectors
latt_vec_of_bottom(s, tag) == s.layer_latt_vecs[1]
latt_vec_of(s, tag) == s.layer_latt_vecs[SourceLayer(tag)]

\* one pass of the inner loop body (lines 92-97)
AppendOne(s, tag, xy, i) ==
  [s EXCEPT
     !.coords = @ \o [k \in 1..Len(xy) |-> [lat |-> xy[k].lat, f |-> xy[k].f, z |-> i]],
     !.layer_nsites = Append(@, Len(xy)),
     !.layer_nsites_sublatt = Append(@, nsites_sublatt(s, tag)),
     !.layer_latt_vecs = Append(@, latt_vec_of(s, tag))]

RECURSIVE AppendMults(_, _, _, _)
AppendMults(s, tag, xy, mults) ==
  IF mults = <<>> THEN s
  ELSE AppendMults(AppendOne(s, tag, xy, Head(mults)), tag, xy, Tail(mults))

\* the outer loop (lines 88-97): [s, err], stopping at the first tag that raises
RECURSIVE AppendRun(_, _)
AppendRun(s, req) ==
  IF req = <<>> THEN [s |-> s, err |-> NoErr]
  ELSE LET c == coords_xy(s, Head(req)[1])
       IN  IF c.err # NoErr THEN [s |-> s, err |-> c.err]
           ELSE AppendRun(AppendMults(s, Head(req)[1], c.xy, Head(req)[2]), Tail(req))

Self ==
  [attrs |-> attrs, coords |-> coords, layer_nsites |-> layer_nsites,
   layer_nsites_sublatt |-> layer_nsites_sublatt, layer_latt_vecs |-> layer_latt_vecs]

\* line 98 runs only when the loop did not raise; it reads self.coords
FinishNsite(r) ==
  IF r.err # NoErr THEN [nsite |-> nsite, err |-> r.err]
  ELSE IF "coords" \notin r.s.attrs THEN [nsite |-> nsite, err |-> "AttributeError"]
  ELSE [nsite |-> Len(r.s.coords), err |-> NoErr]

append_layers(req) ==
  /\ dk.pc = "idle"
  /\ LET r == AppendRun(Self, req)
         f == FinishNsite(r)
     IN  /\ coords' = r.s.coords
         /\ layer_nsites' = r.s.layer_nsites
         /\ layer_nsites_sublatt' = r.s.layer_nsites_sublatt
         /\ layer_latt_vecs' = r.s.layer_latt_vecs
         /\ nsite' = f.nsite
         /\ attrs' = IF f.err = NoErr THEN attrs \cup {"nsite"} ELSE attrs
         /\ last' = Call("append_layers", req, f.err, NoRet)
  /\ UNCHANGED <<cls, rotate_cent, latt_vec, latt_vec_bott, latt_vec_top,
                 twist_angle, hoppings, dk>>

\* ------------------------------------------------------------ the requests
Mults == {-1, 2}

RECURSIVE SeqsUpTo(_, _)
SeqsUpTo(S, k) ==
  IF k = 0 THEN {<<>>}
  ELSE LET prev == SeqsUpTo(S, k - 1)
       IN  prev \cup {Append(q, x) : q \in prev, x \in S}

RECURSIVE NPairs(_)
NPairs(req) == IF req = <<>> THEN 0 ELSE Len(Head(req)[2]) + NPairs(Tail(req))

DistinctTags(req) == \A a, b \in 1..Len(req) : a # b => req[a][1] # req[b][1]

\* the dicts with t more tags outside used and at most budget more heights,
\* every tag with at least one height
RECURSIVE Dicts(_, _, _)
Dicts(used, budget, t) ==
  IF t = 0 \/ budget = 0 THEN {<<>>}
  ELSE {<<>>} \cup
       UNION {{<< <<tag, l>> >> \o r : r \in Dicts(used \cup {tag}, budget - Len(l), t - 1)} :
                tag \in Tags \ used, l \in SeqsUpTo(Mults, budget) \ {<<>>}}

\* every dict of at most MaxTags tags and MaxPairs heights; a tag with an empty
\* list is kept only alone in its dict
Requests == Dicts({}, MaxPairs, MaxTags) \cup {<< <<tag, <<>> >> >> : tag \in Tags}

NLayers == IF "layer_nsites" \in attrs THEN Len(layer_nsites) ELSE 0

\* the layers a builder leaves: one for Graphene, two for the bilayers
BuiltLayers == IF cls = "Graphene" THEN 1 ELSE 2

\* ------------------------------------------------------- the hopping table
\* hoppings[i+1] is the dict of site i: a function from <<m, n, j>> (cell offset
\* and 0-based target site) to a complex amplitude.
Offsets == {<<0, 0>>, <<1, 0>>, <<0, -1>>}
Amps == {<<1, 0>>, <<0, 1>>}

Slots(n) == {[i |-> i, key |-> <<o[1], o[2], j>>] : i \in 0..(n - 1), o \in Offsets, j \in 0..(n - 1)}

RECURSIVE SubsetsUpTo(_, _)
SubsetsUpTo(S, k) ==
  IF k = 0 THEN {{}}
  ELSE LET prev == SubsetsUpTo(S, k - 1)
       IN  prev \cup {T \cup {x} : T \in prev, x \in S}

ToTable(n, e) ==
  [i \in 1..n |->
     [key \in {sl.key : sl \in {x \in DOMAIN e : x.i = i - 1}} |-> e[[i |-> i - 1, key |-> key]]]]

\* what calc_hopping_pz_PBC / calc_hopping_wannier_PBC may return for n sites
HopTables(n) ==
  {ToTable(n, e) : e \in UNION {[T -> Amps] : T \in SubsetsUpTo(Slots(n), MaxHops)}}

EmptyTable(n) == [i \in 1..n |-> <<>>]

TinyTables(n) ==
  IF n = 0 THEN {<<>>}
  ELSE {EmptyTable(n),
        [EmptyTable(n) EXCEPT ![1] = (<<0, 0, n - 1>> :> <<1, 0>>) @@ (<<1, 0, n - 1>> :> <<0, 1>>)
                                     @@ (<<1, 0, 0>> :> <<1, 0>>)]}

add_hopping_pz(tbl) ==
  /\ dk.pc = "idle"
  /\ IF ~({"latt_vec", "coords"} \subseteq attrs)
     THEN \* pymatgen_struct reads self.latt_vec and self.coords
          /\ last' = Call("add_hopping_pz", <<>>, "AttributeError", NoRet)
          /\ UNCHANGED <<hoppings, attrs>>
     ELSE /\ hoppings' = tbl
          /\ attrs' = attrs \cup {"hoppings"}
          /\ last' = Call("add_hopping_pz", <<>>, NoErr, NoRet)
  /\ UNCHANGED <<cls, rotate_cent, coords, latt_vec, latt_vec_bott, latt_vec_top,
                 layer_nsites, layer_nsites_sublatt, layer_latt_vecs, nsite,
                 twist_angle, dk>>

\* mutant: the layer guard off by one
WannierCheckOffByOne ==
  IF "layer_nsites" \notin attrs THEN "AttributeError"
  ELSE IF Len(layer_nsites) > 3 THEN "ValueError"
  ELSE NoErr
WannierCheck ==
  IF "layer_nsites" \notin attrs THEN "AttributeError"
  ELSE IF Len(layer_nsites) > 2 THEN "ValueError"
  ELSE NoErr

add_hopping_wannier(tbl) ==
  /\ dk.pc = "idle"
  /\ IF WannierCheck # NoErr
     THEN /\ last' = Call("add_hopping_wannier", <<>>, WannierCheck, NoRet)
          /\ UNCHANGED <<hoppings, attrs>>
     ELSE /\ hoppings' = tbl
          /\ attrs' = attrs \cup {"hoppings"}
          /\ last' = Call("add_hopping_wannier", <<>>, NoErr, NoRet)
  /\ UNCHANGED <<cls, rotate_cent, coords, latt_vec, latt_vec_bott, latt_vec_top,
                 layer_nsites, layer_nsites_sublatt, layer_latt_vecs, nsite,
                 twist_angle, dk>>

\* ------------------------------------------------------------ hoppings_2to3
\* mutant: the zero inserted in the second position
Key4ZeroSecond(j) == <<j[1], 0, j[2], j[3]>>
Key4(j) == <<j[1], j[2], 0, j[3]>>

\* the dict comprehension: a later key of the same 4-tuple overwrites
Rekey(d) ==
  [k4 \in {Key4(j) : j \in DOMAIN d} |-> d[CHOOSE j \in DOMAIN d : Key4(j) = k4]]

TableErr ==
  IF "nsite" \notin attrs THEN "AttributeError"
  ELSE IF nsite = 0 THEN NoErr
  ELSE IF "hoppings" \notin attrs THEN "AttributeError"
  ELSE IF Len(hoppings) < nsite THEN "IndexError"
  ELSE NoErr

hoppings_2to3 ==
  /\ dk.pc = "idle"
  /\ last' = IF TableErr # NoErr
             THEN Call("hoppings_2to3", <<>>, TableErr, NoRet)
             ELSE Call("hoppings_2to3", <<>>, NoErr, [i \in 1..nsite |-> Rekey(hoppings[i])])
  /\ UNCHANGED <<cls, rotate_cent, structVars, twist_angle, hoppings, dk>>

\* --------------------------------------------------------- hamilt_cell_diff
CAdd(x, y) == <<x[1] + y[1], x[2] + y[2]>>
CMul(x, y) == <<x[1] * y[1] - x[2] * y[2], x[1] * y[2] + x[2] * y[1]>>
CConj(x) == <<x[1], -x[2]>>

\* exp(1j*q*pi/2)
IPow(q) ==
  CASE q % 4 = 0 -> <<1, 0>>
    [] q % 4 = 1 -> <<0, 1>>
    [] q % 4 = 2 -> <<-1, 0>>
    [] OTHER     -> <<0, -1>>

\* np.exp(1j*np.dot(k, R)), R = m*latt_vec[0] + n*latt_vec[1], with k given by
\* <<k.latt_vec[0], k.latt_vec[1]>> in units of pi/2
Phase(k, m, n) == IPow(m * k[1] + n * k[2])

\* what line 133 adds at [i, j] and line 134 at [j, i]
ForwardTerm(t, phase) == CMul(t, phase)
BackwardTerm(t, phase) == CMul(t, CConj(phase))

Sites == 0..(nsite - 1)

HkInit(field) ==
  [p \in Sites \X Sites |->
     IF field # 0 /\ p[1] = p[2] THEN <<coords[p[1] + 1].z * field, 0>> ELSE <<0, 0>>]

\* the pairs <<i, key>> the two loops of lines 128-129 visit
HopEntries == UNION {{<<i, key>> : key \in DOMAIN hoppings[i + 1]} : i \in Sites}

AddEntry(H, k, e) ==
  LET i  == e[1]
      j  == e[2][3]
      t  == hoppings[i + 1][e[2]]
      ph == Phase(k, e[2][1], e[2][2])
      H1 == [H EXCEPT ![<<i, j>>] = CAdd(@, ForwardTerm(t, ph))]
  IN  [H1 EXCEPT ![<<j, i>>] = CAdd(@, BackwardTerm(t, ph))]

RECURSIVE HkFold(_, _, _)
HkFold(H, k, es) ==
  IF es = {} THEN H
  ELSE LET e == CHOOSE x \in es : TRUE
       IN  HkFold(AddEntry(H, k, e), k, es \ {e})

\* [err, Hk]
Hamilt(k, field) ==
  IF TableErr # NoErr THEN [err |-> TableErr, Hk |-> <<>>]
  ELSE [err |-> NoErr, Hk |-> HkFold(HkInit(field), k, HopEntries)]

hamilt_cell_diff(k, field) ==
  /\ dk.pc = "idle"
  /\ LET r == Hamilt(k, field)
     IN  last' = Call("hamilt_cell_diff", <<k, field>>, r.err, r.Hk)
  /\ UNCHANGED <<cls, rotate_cent, structVars, twist_angle, hoppings, dk>>

\* ---------------------------------------------------------------- diag_kpts
\* zheev and get_pk are external: their results are kept as terms over their
\* arguments; the status info is the solver's to choose.
Zheev(Hk, vec_calc) == [vals |-> <<"w", Hk>>, vecs |-> <<"v", Hk, vec_calc>>]
GetPk(k, vecs) == <<"pk", k, vecs>>

VecCalc(vec, pmk) == IF vec # 0 \/ pmk # 0 THEN 1 ELSE 0

\* mutant: the k-points taken from the end
LoopKReversed(kpts, i) == kpts[Len(kpts) + 1 - i]
\* the k-point the loop takes at its i-th pass (1-based)
LoopK(kpts, i) == kpts[i]

\* the raise of lines 157-158
SolverFailed(info) == info # 0

diag_start(kpts, vec, pmk, field) ==
  /\ dk.pc = "idle"
  /\ dk' = [pc |-> "loop", kpts |-> kpts, vec |-> vec, pmk |-> pmk, field |-> field,
            i |-> 1, val_out |-> <<>>, vec_out |-> <<>>, pmk_out |-> <<>>, trace |-> <<>>]
  /\ last' = Call("diag_kpts", <<kpts, vec, pmk, field>>, "running", NoRet)
  /\ UNCHANGED <<cls, rotate_cent, structVars, twist_angle, hoppings>>

\* one pass of the loop body (lines 154-165)
diag_step(info) ==
  /\ dk.pc = "loop"
  /\ dk.i <= Len(dk.kpts)
  /\ LET k == LoopK(dk.kpts, dk.i)
         h == Hamilt(k, dk.field)
         z == Zheev(h.Hk, VecCalc(dk.vec, dk.pmk))
     IN  IF h.err # NoErr
         THEN /\ dk' = Idle
              /\ last' = [last EXCEPT !.raised = h.err, !.ret = [out |-> NoRet, trace |-> dk.trace]]
         ELSE IF SolverFailed(info)
         THEN /\ dk' = Idle
              /\ last' = [last EXCEPT !.raised = "ValueError",
                                      !.ret = [out |-> NoRet, trace |-> Append(dk.trace, <<k, info>>)]]
         ELSE /\ dk' = [dk EXCEPT !.i = @ + 1,
                                  !.trace = Append(@, <<k, info>>),
                                  !.val_out = Append(@, z.vals),
                                  !.vec_out = IF dk.vec # 0 THEN Append(@, z.vecs) ELSE @,
                                  !.pmk_out = IF dk.pmk # 0 THEN Append(@, GetPk(k, z.vecs)) ELSE @]
              /\ UNCHANGED last
  /\ UNCHANGED <<cls, rotate_cent, structVars, twist_angle, hoppings>>

diag_return ==
  /\ dk.pc = "loop"
  /\ dk.i > Len(dk.kpts)
  /\ dk' = Idle
  /\ last' = [last EXCEPT !.raised = NoErr,
                          !.ret = [out |-> <<dk.val_out, dk.vec_out, dk.pmk_out>>, trace |-> dk.trace]]
  /\ UNCHANGED <<cls, rotate_cent, structVars, twist_angle, hoppings>>

\* ------------------------------------------------------------------ inputs
Ks == {<<0, 0>>, <<1, 0>>, <<2, 1>>, <<1, 3>>}
Fields == {0, 1}
Flags == {0, 1}
Infos == {0, 1}
SmallMN == {<<1, 0>>}
SmallNBottom == {1, 2}

\* --------------------------------------------------------- specifications
\* Spec: the builders over their whole range, and the hopping assembly.
Next ==
  \/ \E m \in 0..MaxMN, n \in 0..MaxMN : CommensuStruct_make_structure(m, n) /\ UNCHANGED calls
  \/ \E nb \in 0..MaxNBottom : TBG30Approximant_make_structure(nb) /\ UNCHANGED calls
  \/ \E tbl \in TinyTables(Len(coords)) : add_hopping_pz(tbl) /\ UNCHANGED calls
  \/ \E tbl \in TinyTables(Len(coords)) : add_hopping_wannier(tbl) /\ UNCHANGED calls

Spec == Init /\ [][Next]_vars

\* SpecLayers: small structures, append_layers and the Wannier guard.
NextLayers ==
  \/ \E mn \in SmallMN : CommensuStruct_make_structure(mn[1], mn[2]) /\ UNCHANGED calls
  \/ \E nb \in SmallNBottom : TBG30Approximant_make_structure(nb) /\ UNCHANGED calls
  \/ \E req \in Requests :
       /\ NLayers + NPairs(req) <= BuiltLayers + MaxAppend
       /\ append_layers(req)
       /\ UNCHANGED calls
  \/ add_hopping_wannier(EmptyTable(Len(coords))) /\ UNCHANGED calls

SpecLayers == InitDefault /\ [][NextLayers]_vars

\* SpecTwist: successive commensurate builds, the last two recorded in calls.
NextTwist ==
  \E m \in 0..MaxMN, n \in 0..MaxMN :
     /\ CommensuStruct_make_structure(m, n)
     /\ calls' = LET c == [m |-> m, n |-> n, twist_angle |-> twist_angle',
                                 rot |-> latt_vec_top'.rot]
                 IN  IF m = 0 /\ n = 0 THEN calls
                     ELSE IF calls = <<>> THEN <<c>>
                     ELSE <<calls[Len(calls)], c>>

InitTwist == InitMoire("CommensuStruct", {"atom", "hole"}) /\ InitRest

SpecTwist == InitTwist /\ [][NextTwist]_vars

\* SpecHam: a monolayer, every small hopping table attached once, the Bloch
\* matrix and the re-keyed table.
NextHam ==
  \/ /\ "hoppings" \notin attrs
     /\ \E tbl \in HopTables(Len(coords)) : add_hopping_pz(tbl) /\ UNCHANGED calls
  \/ \E k \in Ks, f \in Fields : hamilt_cell_diff(k, f) /\ UNCHANGED calls
  \/ hoppings_2to3 /\ UNCHANGED calls

\* Graphene()
InitMono == Graphene_init /\ InitRest

SpecHam == InitMono /\ [][NextHam]_vars

\* SpecDiag: the k-point loop.
NextDiag ==
  \/ \E tbl \in TinyTables(Len(coords)) : add_hopping_pz(tbl) /\ UNCHANGED calls
  \/ \E kpts \in SeqsUpTo(Ks, MaxK), vec \in Flags, pmk \in Flags, f \in Fields :
       diag_start(kpts, vec, pmk, f) /\ UNCHANGED calls
  \/ \E info \in Infos : diag_step(info) /\ UNCHANGED calls
  \/ diag_return /\ UNCHANGED calls

SpecDiag == InitMono /\ [][NextDiag]_vars

\* ================================================================== claims
Built == "nsite" \in attrs
After(op) == last.op = op /\ last.raised = NoErr

SetOf(q) == {q[k] : k \in 1..Len(q)}

\* ---- C3 (Spec)
CellArea(m, n) == m*m + n*n + m*n

\* the sites of coords at positions lo+1..lo+cnt are cnt distinct sites of
\* lattice lat at height z, all on the sublattice of the primitive site f0
IsSublattice(lo, cnt, lat, z, f0) ==
  /\ lo + cnt <= Len(coords)
  /\ Cardinality({coords[lo + k] : k \in 1..cnt}) = cnt
  /\ \A k \in 1..cnt :
       /\ coords[lo + k].lat = lat /\ coords[lo + k].z = z
       /\ (coords[lo + k].f[1] - f0[1]) % 3 = 0
       /\ (coords[lo + k].f[2] - f0[2]) % 3 = 0

\* C3: for all non-negative (m, n) not both zero, CommensuStruct.make_structure
\* (m, n) succeeds and leaves nsite = 4*(m^2+n^2+m*n), each of the four sublattice
\* site sets (bottom-A, bottom-B, top-A, top-B) holding m^2+n^2+m*n distinct
\* sites, for rotate_cent 'atom' and 'hole' alike.
C3_SiteCount ==
  (cls = "CommensuStruct" /\ last.op = "make_structure"
     /\ last.args # <<0, 0>>) =>
    LET N  == CellArea(last.args[1], last.args[2])
        f0 == IF rotate_cent = "atom" THEN <<0, 0>> ELSE <<1, 1>>
        f1 == IF rotate_cent = "atom" THEN <<1, 1>> ELSE <<2, 2>>
    IN  /\ last.raised = NoErr
        /\ nsite = 4 * N
        /\ Len(coords) = 4 * N
        /\ layer_nsites_sublatt = << <<N, N>>, <<N, N>> >>
        /\ IsSublattice(0, N, "bott", 0, f0)
        /\ IsSublattice(N, N, "bott", 0, f1)
        /\ IsSublattice(2 * N, N, "top", 1, f0)
        /\ IsSublattice(3 * N, N, "top", 1, f1)

C3_Witness ==
  /\ cls = "CommensuStruct" /\ rotate_cent = "hole"
  /\ After("make_structure") /\ last.args = <<2, 1>>
  /\ nsite = 28

\* ---- C4 (Spec)
\* t is the integer nearest to sqrt(3)*nb
NearestSqrt3(nb, t) ==
  /\ (t = 0 \/ (2*t - 1) * (2*t - 1) <= 12 * nb * nb)
  /\ 12 * nb * nb <= (2*t + 1) * (2*t + 1)

\* C4: a step of TBG30Approximant.make_structure(n_bottom), with n_top the
\* integer nearest to sqrt(3)*n_bottom: if gcd(n_bottom, n_top) # 1 or n_top is
\* a multiple of 3 the call raises and no structure attribute is created or
\* modified; otherwise it raises nothing.
C4_Validation ==
  [][(cls = "TBG30Approximant" /\ last'.op = "make_structure") =>
       \A t \in 0..(2 * last'.args[1] + 1) :
          NearestSqrt3(last'.args[1], t) =>
            IF Gcd(last'.args[1], t) # 1 \/ t % 3 = 0
            THEN last'.raised = "ValueError" /\ UNCHANGED structVars
            ELSE last'.raised = NoErr]_vars

\* n_bottom = 6 (n_top = 10) is rejected on an object that holds a structure
C4_Witness ==
  /\ cls = "TBG30Approximant"
  /\ last.op = "make_structure" /\ last.args = <<6>> /\ last.raised = "ValueError"
  /\ Built /\ nsite = 14

\* ---- C8 (Spec)
After10 == cls = "CommensuStruct" /\ After("make_structure") /\ last.args = <<1, 0>>

\* C8 as claimed: make_structure(1, 0) records a twist angle of 0 degrees
\* (cosine argument 1, identity rotation) and 4 sites, twice Graphene's nsite,
\* 2 per layer.
C8_Original ==
  After10 =>
    /\ twist_angle = <<1, 1>>
    /\ latt_vec_top.rot = [cos |-> <<1, 1>>, sin3 |-> <<0, 1>>]
    /\ nsite = 4 /\ nsite = 2 * GrapheneNsite /\ layer_nsites = <<2, 2>>

\* C8 amended: make_structure(1, 0) records a twist angle of 60 degrees (cosine
\* argument 1/2; the top layer is rotated by 60 degrees, cos = 1/2 and
\* sin = sqrt(3)/2) and 4 sites, twice Graphene's nsite, 2 per layer.
C8_Sixty ==
  After10 =>
    /\ twist_angle = <<1, 2>>
    /\ latt_vec_top.rot = [cos |-> <<1, 2>>, sin3 |-> <<1, 2>>]
    /\ nsite = 4 /\ nsite = 2 * GrapheneNsite /\ layer_nsites = <<2, 2>>

C8_Witness == After10 /\ nsite = 4 /\ "twist_angle" \in attrs

\* ---- C7 (SpecTwist)
\* arccos(c1) + arccos(c2) = 60 degrees, for rationals c1 = a/b, c2 = p/q:
\* both angles are acute and cos of the sum is 1/2, that is
\* c1*c2 - 1/2 = sqrt((1 - c1^2)*(1 - c2^2))
SumIs60(c1, c2) ==
  LET a == c1[1]
      b == c1[2]
      p == c2[1]
      q == c2[2]
  IN  /\ a > 0 /\ p > 0
      /\ 2 * a * p >= b * q
      /\ 4 * (b*b - a*a) * (q*q - p*p) = (2*a*p - b*q) * (2*a*p - b*q)

\* the last two builds were make_structure(m, n) and make_structure(n, m),
\* m and n coprime and different
SwappedPair ==
  /\ Len(calls) = 2
  /\ calls[1].m = calls[2].n /\ calls[1].n = calls[2].m
  /\ calls[1].m # calls[1].n
  /\ Gcd(calls[1].m, calls[1].n) = 1

\* C7 as claimed: the twist angles recorded by make_structure(m, n) and
\* make_structure(n, m) add up to 60 degrees.
C7_Original == SwappedPair => SumIs60(calls[1].twist_angle, calls[2].twist_angle)

\* C7 amended: the twist angles recorded by make_structure(m, n) and
\* make_structure(n, m) are equal (the arccos argument is symmetric in m and n),
\* so they do not add up to 60 degrees.
C7_Equal ==
  SwappedPair =>
    /\ calls[1].twist_angle = calls[2].twist_angle
    /\ ~SumIs60(calls[1].twist_angle, calls[2].twist_angle)

C7_Witness ==
  /\ SwappedPair /\ calls[1].m = 1 /\ calls[1].n = 2
  /\ twist_angle = <<13, 14>>

\* ---- C2 (SpecLayers)
\* C2: on every built structure sum(layer_nsites) = nsite = the number of
\* coordinate rows, layer_nsites and layer_nsites_sublatt have the same length,
\* and each layer's two sublattice counts add up to its entry of layer_nsites.
C2_Counts ==
  Built =>
    /\ SumSeq(layer_nsites) = nsite
    /\ nsite = Len(coords)
    /\ Len(layer_nsites) = Len(layer_nsites_sublatt)
    /\ \A l \in 1..Len(layer_nsites) :
         layer_nsites_sublatt[l][1] + layer_nsites_sublatt[l][2] = layer_nsites[l]

\* ---- C5 (SpecLayers)
\* C5: a step of add_hopping_wannier on a structure of more than two layers
\* raises ValueError and leaves hoppings and every other attribute unchanged; on
\* a structure of exactly two layers it does not raise that error.
C5_WannierGuard ==
  [][(last'.op = "add_hopping_wannier" /\ Built) =>
       /\ Len(layer_nsites) > 2 =>
            /\ last'.raised = "ValueError"
            /\ UNCHANGED <<hoppings, structVars, twist_angle, cls, rotate_cent>>
       /\ Len(layer_nsites) = 2 => last'.raised # "ValueError"]_vars

\* the guard fires on a three-layer structure that already carries hoppings
C5_Witness ==
  /\ last.op = "add_hopping_wannier" /\ last.raised = "ValueError"
  /\ Len(layer_nsites) = 3 /\ "hoppings" \in attrs

\* ---- C10 (SpecLayers)
RECURSIVE PairsOf(_)
PairsOf(req) ==
  IF req = <<>> THEN <<>>
  ELSE [k \in 1..Len(Head(req)[2]) |-> <<Head(req)[1], Head(req)[2][k]>>] \o PairsOf(Tail(req))

\* the source of tag exists: layer 0 for 'A'/'B', layer 1 and the top lattice
\* vectors for 'Atld'/'Btld'
Avail(tag) ==
  /\ "layer_nsites" \in attrs
  /\ tag \in {"Atld", "Btld"} => (Len(layer_nsites) >= 2 /\ "latt_vec_top" \in attrs)

\* the tags of req before the first one whose source is missing
RECURSIVE Served(_)
Served(req) ==
  IF req = <<>> \/ ~Avail(Head(req)[1]) THEN <<>>
  ELSE <<Head(req)>> \o Served(Tail(req))

\* the step kept every old site and entry and appended one layer per pair of
\* done, in order: as many sites, the sublattice split and the lattice vectors
\* of its source layer, every site at the pair's height
AppendedExactly(done) ==
  /\ Len(layer_nsites') = Len(layer_nsites) + Len(done)
  /\ Len(layer_nsites_sublatt') = Len(layer_nsites_sublatt) + Len(done)
  /\ Len(layer_latt_vecs') = Len(layer_latt_vecs) + Len(done)
  /\ SubSeq(coords', 1, Len(coords)) = coords
  /\ SubSeq(layer_nsites', 1, Len(layer_nsites)) = layer_nsites
  /\ SubSeq(layer_nsites_sublatt', 1, Len(layer_nsites_sublatt)) = layer_nsites_sublatt
  /\ SubSeq(layer_latt_vecs', 1, Len(layer_latt_vecs)) = layer_latt_vecs
  /\ Len(coords') = SumSeq(layer_nsites')
  /\ \A p \in 1..Len(done) :
       LET l   == Len(layer_nsites) + p
           src == IF done[p][1] \in {"A", "B"} THEN 1 ELSE 2
           lo  == SumSeq(SubSeq(layer_nsites', 1, l - 1))
       IN  /\ layer_nsites'[l] = layer_nsites[src]
           /\ layer_nsites_sublatt'[l] = layer_nsites_sublatt[src]
           /\ layer_latt_vecs'[l] = layer_latt_vecs[src]
           /\ \A k \in 1..layer_nsites'[l] : coords'[lo + k].z = done[p][2]

\* C10 as claimed: every append_layers call on a built structure keeps the old
\* sites and entries and appends one layer for each requested pair.
C10_Original ==
  [][(last'.op = "append_layers" /\ Built) => AppendedExactly(PairsOf(last'.args))]_vars

\* C10 amended: every append_layers call leaves the old sites and entries
\* unchanged and appends, in request order, one layer per requested pair of the
\* tags before the first tag whose source is missing (the structure is not
\* built, or the tag is 'Atld'/'Btld' and there is no second layer or no
\* latt_vec_top, as on Graphene); it raises exactly when there is such a tag.
C10_Served ==
  [][last'.op = "append_layers" =>
       /\ AppendedExactly(PairsOf(Served(last'.args)))
       /\ (last'.raised = NoErr) <=> (Built /\ Served(last'.args) = last'.args)]_vars

\* a bilayer got an Atld layer and then a B layer in one call
C10_Witness ==
  /\ After("append_layers")
  /\ last.args = << <<"Atld", <<2>> >>, <<"B", <<-1>> >> >>
  /\ cls = "CommensuStruct" /\ Len(layer_nsites) = 4
  /\ layer_latt_vecs[3] = latt_vec_top /\ layer_latt_vecs[4] = latt_vec_bott

\* ---- C1 (SpecHam)
\* C1: the matrix hamilt_cell_diff returns equals its conjugate transpose.
C1_Hermitian ==
  After("hamilt_cell_diff") =>
    \A i, j \in Sites : last.ret[<<i, j>>] = CConj(last.ret[<<j, i>>])

\* ---- C6 (SpecHam)
OnePerSite == "hoppings" \in attrs /\ Built /\ Len(hoppings) = nsite

\* C6: on a structure whose hoppings table has one mapping per site, a step of
\* hoppings_2to3 returns nsite mappings, the one of site i holding exactly one
\* key (m, n, 0, j) for each key (m, n, j) of hoppings[i], with the same
\* amplitude, and no other key; hoppings itself is unchanged.
C6_Rekeyed ==
  [][(last'.op = "hoppings_2to3" /\ OnePerSite) =>
       /\ last'.raised = NoErr
       /\ hoppings' = hoppings
       /\ Len(last'.ret) = nsite
       /\ \A i \in 1..nsite :
            /\ Cardinality(DOMAIN last'.ret[i]) = Cardinality(DOMAIN hoppings[i])
            /\ \A k4 \in DOMAIN last'.ret[i] :
                 /\ Len(k4) = 4 /\ k4[3] = 0
                 /\ <<k4[1], k4[2], k4[4]>> \in DOMAIN hoppings[i]
            /\ \A key \in DOMAIN hoppings[i] :
                 /\ <<key[1], key[2], 0, key[3]>> \in DOMAIN last'.ret[i]
                 /\ last'.ret[i][<<key[1], key[2], 0, key[3]>>] = hoppings[i][key]]_vars

\* a table whose first site has two keys that differ in the cell offset only
C6_Witness ==
  /\ After("hoppings_2to3") /\ OnePerSite
  /\ DOMAIN hoppings[1] = {<<1, 0, 1>>, <<0, -1, 1>>}
  /\ hoppings[1][<<1, 0, 1>>] = <<0, 1>>
  /\ last.ret[1][<<0, -1, 0, 1>>] = <<1, 0>>

\* ---- C9 (SpecDiag)
DiagDone == last.op = "diag_kpts" /\ dk.pc = "idle"

\* C9: a finished diag_kpts call has passed the Hamiltonians of kpts[0],
\* kpts[1], ... to the solver in that order; if the Hamiltonian can be assembled
\* and every status was 0 it returns one eigenvalue row per k-point, row i the
\* solver's values for the Hamiltonian at kpts[i]; if a status was not 0 it
\* raised at that k-point, the solver was not called again and nothing is
\* returned.
C9_InOrder ==
  DiagDone =>
    LET kpts  == last.args[1]
        vc    == IF last.args[2] # 0 \/ last.args[3] # 0 THEN 1 ELSE 0
        field == last.args[4]
        tr    == last.ret.trace
    IN  /\ Len(tr) <= Len(kpts)
        /\ \A i \in 1..Len(tr) : tr[i][1] = kpts[i]
        /\ \A i \in 1..(Len(tr) - 1) : tr[i][2] = 0
        /\ last.raised \in {NoErr, "ValueError", "AttributeError"}
        /\ last.raised = NoErr =>
             /\ Len(tr) = Len(kpts)
             /\ \A i \in 1..Len(tr) : tr[i][2] = 0
             /\ Len(last.ret.out[1]) = Len(kpts)
             /\ \A i \in 1..Len(kpts) :
                  last.ret.out[1][i] = Zheev(Hamilt(kpts[i], field).Hk, vc).vals
        /\ last.raised = "ValueError" =>
             /\ Len(tr) >= 1 /\ tr[Len(tr)][2] # 0
             /\ last.ret.out = NoRet
        /\ last.raised = "AttributeError" => ("hoppings" \notin attrs /\ tr = <<>>)
        /\ ("hoppings" \in attrs /\ \A i \in 1..Len(tr) : tr[i][2] = 0) => last.raised = NoErr

\* the solver failed at the first of two different k-points
C9_Witness ==
  /\ DiagDone /\ last.raised = "ValueError"
  /\ Len(last.args[1]) = 2 /\ last.args[1][1] # last.args[1][2]
  /\ Len(last.ret.trace) = 1

====
